---------------------------- MODULE Spec2Model ----------------------------
(***************************************************************************)
(* SQLCompare: a tolerant parser of CREATE TABLE dumps (parseTables), a    *)
(* directional diff engine over two parsed schemas (compareTables) and a   *)
(* grouping pass over the diff list (groupByType), as main() chains them.  *)
(*                                                                         *)
(* A Go string is modelled as a sequence of pieces.  A piece is either one *)
(* of the characters the program inspects (space, backquote, comma, the    *)
(* two parentheses, the dot) or an opaque run of other characters, such as *)
(* CREATE, INT or a column name.                                           *)
(* strings.Trim, strings.Split, strings.Join and fmt.Sprintf act on the    *)
(* pieces as they act on the characters.  A Go map is a function; a nil    *)
(* map reads as the empty function.                                        *)
(***************************************************************************)
EXTENDS Integers, Sequences, FiniteSets, TLC

VARIABLES
    dataA,            \* main: the lines of the first file
    dataB,            \* main: the lines of the second file
    pc,               \* main: parseA, parseB, compare, group, print or panic
    i,                \* parseTables: the line the loop is at, from 1
    table,            \* parseTables: the current table
    tables,           \* parseTables: the schema built so far
    analyzingTable,   \* parseTables: a header has been read
    tablesA,          \* main: parseTables(dataA)
    tablesB,          \* main: parseTables(dataB)
    ds,               \* groupByType: the list it was given
    diffs             \* main: the diff list

vars == <<dataA, dataB, pc, i, table, tables, analyzingTable,
          tablesA, tablesB, ds, diffs>>

-----------------------------------------------------------------------------
(* Bounds of the model.                                                    *)

\* Longest input text, in lines.
MaxLines == 3

\* Most columns, indexes and constraints in schema A and schema B together
\* when the diff engine is explored on its own.
MaxElems == 2

-----------------------------------------------------------------------------
(* Strings.                                                                *)

SP == " "
\* The backquote character (the lexer has no literal for it).
BQ == "BACKQUOTE"
COMMA == ","
LPAR == "("
RPAR == ")"
DOT == "."

\* strings.Trim(s, cutset) with a one-character cutset.
RECURSIVE TrimLeft(_, _)
TrimLeft(s, c) ==
    IF s # <<>> /\ Head(s) = c THEN TrimLeft(Tail(s), c) ELSE s

RECURSIVE TrimRight(_, _)
TrimRight(s, c) ==
    IF s # <<>> /\ s[Len(s)] = c THEN TrimRight(SubSeq(s, 1, Len(s) - 1), c) ELSE s

Trim(s, c) == TrimRight(TrimLeft(s, c), c)

\* strings.Split(s, sep): never empty; consecutive separators give empty tokens.
RECURSIVE Split(_, _)
Split(s, sep) ==
    IF \A k \in 1..Len(s) : s[k] # sep
    THEN <<s>>
    ELSE LET k == CHOOSE j \in 1..Len(s) :
                      s[j] = sep /\ \A h \in 1..(j - 1) : s[h] # sep
         IN  <<SubSeq(s, 1, k - 1)>> \o Split(SubSeq(s, k + 1, Len(s)), sep)

\* strings.Join(elems, sep).
RECURSIVE Join(_, _)
Join(elems, sep) ==
    IF elems = <<>> THEN <<>>
    ELSE IF Len(elems) = 1 THEN elems[1]
    ELSE elems[1] \o <<sep>> \o Join(Tail(elems), sep)

\* infos[n:] for a zero-based n <= len(infos).
SliceFrom(infos, n) == SubSeq(infos, n + 1, Len(infos))

\* fmt.Sprintf("%s.%s", a, b)
Sprintf2(a, b) == a \o <<DOT>> \o b

\* fmt.Sprintf("%s.%s.%s", a, b, c)
Sprintf3(a, b, c) == a \o <<DOT>> \o b \o <<DOT>> \o c

-----------------------------------------------------------------------------
(* Maps.                                                                   *)

EmptyMap == [k \in {} |-> {}]

\* m[k] = v
Put(m, k, v) == [x \in (DOMAIN m) \cup {k} |-> IF x = k THEN v ELSE m[x]]

-----------------------------------------------------------------------------
(* The data model.                                                         *)

MissingTable == <<"MISSING_TABLE">>
MissingColumn == <<"MISSING_COLUMN">>
WrongColumnType == <<"WRONG_COLUMN_TYPE">>
WrongColumnOther == <<"WRONG_COLUMN_OTHER">>
MissingIndex == <<"MISSING_INDEX">>
MissingConstraint == <<"MISSING_CONSTRAINT">>
WrongConstraintOther == <<"WRONG_CONSTRAINT_OTHER">>

Column(name, type, other) == [Name |-> name, Type |-> type, Other |-> other]

Index(name, columnName) == [Name |-> name, ColumnName |-> columnName]

Constraint(name, columnName, type, other) ==
    [Name |-> name, ColumnName |-> columnName, Type |-> type, Other |-> other]

Table(name, cols, indexes, constraints) ==
    [Name |-> name, Columns |-> cols, Indexes |-> indexes, Constraints |-> constraints]

Diff(type, target, a, b) == [Type |-> type, Target |-> target, A |-> a, B |-> b]

\* var table Table: the empty name and three nil maps.
ZeroTable == Table(<<>>, EmptyMap, EmptyMap, EmptyMap)

\* The zero Constraint a failed map lookup yields.
ZeroConstraint == Constraint(<<>>, <<>>, <<>>, <<>>)

\* The zero Column a failed map lookup yields.
ZeroColumn == Column(<<>>, <<>>, <<>>)

-----------------------------------------------------------------------------
(* parseTables: the classification of one line.                            *)

CREATE == <<"CREATE">>
TABLE == <<"TABLE">>
ENGINE == <<"ENGINE=InnoDB">>
KEY == <<"KEY">>
CONSTRAINTKW == <<"CONSTRAINT">>
PRIMARY == <<"PRIMARY">>
UNIQUE == <<"UNIQUE">>
DASHES == <<"--">>

keywords == <<PRIMARY, KEY, CONSTRAINTKW, UNIQUE>>

isKeyword(str) ==
    \E n \in 1..Len(keywords) : str = keywords[n] \/ str = <<>> \/ str = DASHES

\* value = strings.Trim(value, " "); infos := strings.Split(value, " ")
Infos(value) == Split(Trim(value, SP), SP)

\* Which branch of the loop body a line takes, the branches tried in the order
\* of the code; "panic" where the branch indexes or slices infos out of range.
LineKind(analyzing, infos) ==
    IF Len(infos) > 1 /\ infos[2] = ENGINE THEN "trailer"
    ELSE IF infos[1] = CREATE /\ Len(infos) < 2 THEN "panic"
    ELSE IF infos[1] = CREATE /\ infos[2] = TABLE
         THEN IF Len(infos) < 3 THEN "panic" ELSE "header"
    ELSE IF analyzing /\ ~isKeyword(infos[1])
         THEN IF Len(infos) < 2 THEN "panic" ELSE "column"
    ELSE IF analyzing /\ infos[1] = KEY
         THEN IF Len(infos) < 3 THEN "panic" ELSE "index"
    ELSE IF analyzing /\ infos[1] = CONSTRAINTKW
         THEN IF Len(infos) < 5 THEN "panic" ELSE "constraint"
    ELSE IF analyzing /\ (infos[1] = PRIMARY \/ infos[1] = UNIQUE)
         THEN IF Len(infos) < 3 THEN "panic" ELSE "key"
    ELSE "skip"

-----------------------------------------------------------------------------
(* parseTables: what each branch stores.                                   *)

\* tableName := strings.Trim(infos[2], "`")
HeaderName(infos) == Trim(infos[3], BQ)

\* table = Table{Name: tableName, Columns: cols, Indexes: indexes, ...}
NewTable(infos) == Table(HeaderName(infos), EmptyMap, EmptyMap, EmptyMap)

\* The header forgets to commit the table it closes.
HeaderCommitNever(tbls, tbl, analyzing) == tbls

\* if analyzingTable { tables[table.Name] = table }
HeaderCommit(tbls, tbl, analyzing) ==
    IF analyzing THEN Put(tbls, tbl.Name, tbl) ELSE tbls

\* The column is stored under its first token as written, quotes included.
ColumnKeyRaw(infos) == infos[1]

\* name := strings.Trim(infos[0], "`"), the key of table.Columns[name]
ColumnKey(infos) == Trim(infos[1], BQ)

\* column := Column{Name: name, Type: infos[1], Other: other}
ColumnOf(infos) ==
    Column(Trim(infos[1], BQ), infos[2], Trim(Join(SliceFrom(infos, 2), SP), COMMA))

\* The column name of a KEY, PRIMARY or UNIQUE line, from its third token.
KeyColumnName(infos) == Trim(Trim(Trim(Trim(infos[3], COMMA), LPAR), RPAR), BQ)

\* index := Index{Name: name, ColumnName: columnName}
IndexOf(infos) == Index(Trim(infos[2], BQ), KeyColumnName(infos))

\* The column name of a CONSTRAINT line, from its fifth token.
ConstraintColumnName(infos) == Trim(Trim(Trim(infos[5], LPAR), RPAR), BQ)

\* constraint := Constraint{Name: name, ColumnName: columnName, Type: infos[2], Other: other}
ConstraintOf(infos) ==
    Constraint(Trim(infos[2], BQ), ConstraintColumnName(infos), infos[3],
               Trim(Join(SliceFrom(infos, 5), SP), COMMA))

\* constraint := Constraint{Name: columnName, ColumnName: columnName, Type: infos[0], Other: ""}
KeyConstraintOf(infos) ==
    Constraint(KeyColumnName(infos), KeyColumnName(infos), infos[1], <<>>)

\* table.Columns[name] = column
WithColumn(tbl, infos) ==
    [tbl EXCEPT !.Columns = Put(tbl.Columns, ColumnKey(infos), ColumnOf(infos))]

\* table.Indexes[columnName] = index
WithIndex(tbl, infos) ==
    [tbl EXCEPT !.Indexes = Put(tbl.Indexes, KeyColumnName(infos), IndexOf(infos))]

\* if table.Constraints[columnName] == nil { ... = make(...) }
\* table.Constraints[columnName][constraintType] = constraint
WithConstraint(tbl, c) ==
    LET inner == IF c.ColumnName \in DOMAIN tbl.Constraints
                 THEN tbl.Constraints[c.ColumnName] ELSE EmptyMap
    IN  [tbl EXCEPT !.Constraints =
            Put(tbl.Constraints, c.ColumnName, Put(inner, c.Type, c))]

\* What a line of a body does to the current table, by its branch.
BodyLine(tbl, infos) ==
    LET kind == LineKind(TRUE, infos) IN
    IF kind = "column" THEN WithColumn(tbl, infos)
    ELSE IF kind = "index" THEN WithIndex(tbl, infos)
    ELSE IF kind = "constraint" THEN WithConstraint(tbl, ConstraintOf(infos))
    ELSE IF kind = "key" THEN WithConstraint(tbl, KeyConstraintOf(infos))
    ELSE tbl

\* The terminal commit happens only when a table was opened.
FinalCommitIfOpened(tbls, tbl, analyzing) ==
    IF analyzing THEN Put(tbls, tbl.Name, tbl) ELSE tbls

\* tables[table.Name] = table; return tables
FinalCommit(tbls, tbl, analyzing) == Put(tbls, tbl.Name, tbl)

-----------------------------------------------------------------------------
(* The input texts: every sequence of one to MaxLines lines of Lines.      *)

Q(name) == <<BQ, name, BQ>>

LHeaderT == <<"CREATE", SP, "TABLE", SP>> \o Q("t") \o <<SP, LPAR>>
LHeaderNoName == <<"CREATE", SP, "TABLE", SP, BQ, BQ, SP, LPAR>>
LColA == <<SP, SP>> \o Q("a") \o <<SP, "INT", SP, "NOT", SP, "NULL", COMMA>>
LColQuotes == <<BQ, BQ, SP, "INT">>
LIndex == <<"KEY", SP>> \o Q("i") \o <<SP, LPAR>> \o Q("a") \o <<RPAR, COMMA>>
LConstraint ==
    <<"CONSTRAINT", SP>> \o Q("f") \o <<SP, "FOREIGN", SP, "KEY", SP, LPAR>>
    \o Q("a") \o <<RPAR, SP, "REFERENCES", SP, "o", LPAR, "id", RPAR, COMMA>>
LPrimary == <<"PRIMARY", SP, "KEY", SP, LPAR>> \o Q("a") \o <<RPAR, COMMA>>
LTrailer == <<RPAR, SP, "ENGINE=InnoDB", SP, "DEFAULT">>
LEmpty == <<>>
LCreate == <<"CREATE">>
LParen == <<RPAR>>

Lines ==
    { LHeaderT, LHeaderNoName, LColA, LColQuotes, LIndex, LConstraint,
      LPrimary, LTrailer, LEmpty, LCreate, LParen }

\* strings.Split(data, "\n") of the texts explored.
Texts == UNION { [1..n -> Lines] : n \in 1..MaxLines }

\* A second file to compare with: a dump of one table.
RefText == <<LHeaderT, <<SP, SP>> \o Q("a") \o <<SP, "TEXT", COMMA>>, LTrailer>>

-----------------------------------------------------------------------------
(* Iteration: Go ranges over a map in an order it does not specify.        *)

\* The orders in which a range over a map with key set S may visit it.
Perms(S) ==
    { p \in [1..Cardinality(S) -> S] :
        \A x, y \in 1..Cardinality(S) : x # y => p[x] # p[y] }

\* append(res, slice...) over a sequence of slices.
RECURSIVE Flatten(_)
Flatten(ss) == IF ss = <<>> THEN <<>> ELSE Head(ss) \o Flatten(Tail(ss))

\* Every concatenation that takes one sequence from each set of ss, in order.
RECURSIVE ConcatChoices(_)
ConcatChoices(ss) ==
    IF ss = <<>> THEN {<<>>}
    ELSE { h \o t : h \in Head(ss), t \in ConcatChoices(Tail(ss)) }

-----------------------------------------------------------------------------
(* compareTables.                                                          *)

\* columnB, columnExists := tableB.Columns[columnA.Name]
ColumnExists(tableB, name) == name \in DOMAIN tableB.Columns

ColumnB(tableB, name) ==
    IF ColumnExists(tableB, name) THEN tableB.Columns[name] ELSE ZeroColumn

\* if columnA.Type != columnB.Type { append WrongColumnType }
TypeDiff(tableA, columnA, columnB) ==
    IF columnA.Type # columnB.Type
    THEN <<Diff(WrongColumnType, Sprintf2(tableA.Name, columnA.Name),
                columnA.Type, columnB.Type)>>
    ELSE <<>>

\* The Other check chained to the Type check with an else.
OtherDiffElse(tableA, columnA, columnB) ==
    IF columnA.Type = columnB.Type /\ columnA.Other # columnB.Other
    THEN <<Diff(WrongColumnOther, Sprintf2(tableA.Name, columnA.Name),
                columnA.Other, columnB.Other)>>
    ELSE <<>>

\* if columnA.Other != columnB.Other { append WrongColumnOther }
OtherDiff(tableA, columnA, columnB) ==
    IF columnA.Other # columnB.Other
    THEN <<Diff(WrongColumnOther, Sprintf2(tableA.Name, columnA.Name),
                columnA.Other, columnB.Other)>>
    ELSE <<>>

\* One iteration of the loop over tableA.Columns.
ColumnDiffs(tableA, tableB, key) ==
    LET columnA == tableA.Columns[key] IN
    IF ~ColumnExists(tableB, columnA.Name)
    THEN <<Diff(MissingColumn, tableA.Name, columnA.Name, <<>>)>>
    ELSE TypeDiff(tableA, columnA, ColumnB(tableB, columnA.Name))
         \o OtherDiff(tableA, columnA, ColumnB(tableB, columnA.Name))

\* One iteration of the loop over tableA.Indexes.
IndexDiffs(tableA, tableB, key) ==
    LET indexA == tableA.Indexes[key] IN
    IF indexA.ColumnName \notin DOMAIN tableB.Indexes
    THEN <<Diff(MissingIndex, Sprintf2(tableA.Name, indexA.ColumnName),
                indexA.Name, <<>>)>>
    ELSE <<>>

\* The lookup succeeds as soon as the column has a constraint of any kind.
ConstraintExistsAnyKind(tableB, columnName, constraintType) ==
    columnName \in DOMAIN tableB.Constraints

\* constraintB, exists := tableB.Constraints[columnNameA][constraintTypeA]
ConstraintExists(tableB, columnName, constraintType) ==
    /\ columnName \in DOMAIN tableB.Constraints
    /\ constraintType \in DOMAIN tableB.Constraints[columnName]

ConstraintB(tableB, columnName, constraintType) ==
    IF /\ columnName \in DOMAIN tableB.Constraints
       /\ constraintType \in DOMAIN tableB.Constraints[columnName]
    THEN tableB.Constraints[columnName][constraintType]
    ELSE ZeroConstraint

\* One iteration of the inner loop over tableA.Constraints[columnNameA].
ConstraintDiffs(tableA, tableB, columnNameA, constraintTypeA) ==
    LET constraintA == tableA.Constraints[columnNameA][constraintTypeA]
        constraintB == ConstraintB(tableB, columnNameA, constraintTypeA)
    IN
    IF ~ConstraintExists(tableB, columnNameA, constraintTypeA)
    THEN <<Diff(MissingConstraint, Sprintf2(tableA.Name, columnNameA),
                constraintA.Type, <<>>)>>
    ELSE IF constraintA.Other # constraintB.Other
    THEN <<Diff(WrongConstraintOther,
                Sprintf3(tableA.Name, columnNameA, constraintA.Type),
                constraintA.Other, constraintB.Other)>>
    ELSE <<>>

\* The diff lists the loop over tableA.Columns may append.
ColumnRuns(tableA, tableB) ==
    { Flatten([n \in 1..Len(p) |-> ColumnDiffs(tableA, tableB, p[n])]) :
        p \in Perms(DOMAIN tableA.Columns) }

\* The diff lists the loop over tableA.Indexes may append.
IndexRuns(tableA, tableB) ==
    { Flatten([n \in 1..Len(p) |-> IndexDiffs(tableA, tableB, p[n])]) :
        p \in Perms(DOMAIN tableA.Indexes) }

\* The diff lists the loop over one column's constraints may append.
ColumnConstraintRuns(tableA, tableB, columnNameA) ==
    { Flatten([n \in 1..Len(q) |->
                 ConstraintDiffs(tableA, tableB, columnNameA, q[n])]) :
        q \in Perms(DOMAIN tableA.Constraints[columnNameA]) }

\* The diff lists the loop over tableA.Constraints may append.
ConstraintRuns(tableA, tableB) ==
    UNION { ConcatChoices([n \in 1..Len(p) |->
                             ColumnConstraintRuns(tableA, tableB, p[n])]) :
              p \in Perms(DOMAIN tableA.Constraints) }

\* The three loops over a table of A that B has too.
TableBodyRuns(tableA, tableB) ==
    ConcatChoices(<<ColumnRuns(tableA, tableB), IndexRuns(tableA, tableB),
                    ConstraintRuns(tableA, tableB)>>)

\* MissingTable is appended and the loops run on against the zero tableB.
MissingTableRunsNoContinue(tableA) ==
    ConcatChoices(<<{<<Diff(MissingTable, tableA.Name, tableA.Name, <<>>)>>},
                    TableBodyRuns(tableA, ZeroTable)>>)

\* if !tableExists { append MissingTable; continue }
MissingTableRuns(tableA) ==
    {<<Diff(MissingTable, tableA.Name, tableA.Name, <<>>)>>}

\* One iteration of the loop over tableMapA.
TableRuns(tableA, tableMapB) ==
    IF tableA.Name \notin DOMAIN tableMapB
    THEN MissingTableRuns(tableA)
    ELSE TableBodyRuns(tableA, tableMapB[tableA.Name])

\* Every diff list compareTables(tableMapA, tableMapB) may return.
compareTables(tableMapA, tableMapB) ==
    UNION { ConcatChoices([n \in 1..Len(p) |->
                             TableRuns(tableMapA[p[n]], tableMapB)]) :
              p \in Perms(DOMAIN tableMapA) }

-----------------------------------------------------------------------------
(* groupByType.                                                            *)

\* The diffs of one type, in the order of the list: one case of the switch.
Bucket(list, type) == SelectSeq(list, LAMBDA d : d.Type = type)

\* The buckets concatenated in the order of their declarations.
slicesAsDeclared(list) ==
    << Bucket(list, MissingTable), Bucket(list, MissingColumn),
       Bucket(list, WrongColumnType), Bucket(list, WrongColumnOther),
       Bucket(list, MissingIndex), Bucket(list, MissingConstraint),
       Bucket(list, WrongConstraintOther) >>

\* slices := [][]Diff{missingTable, missingColumn, ...}
slices(list) ==
    << Bucket(list, MissingTable), Bucket(list, MissingColumn),
       Bucket(list, WrongColumnType), Bucket(list, WrongColumnOther),
       Bucket(list, MissingConstraint), Bucket(list, WrongConstraintOther),
       Bucket(list, MissingIndex) >>

groupByType(list) == Flatten(slices(list))

-----------------------------------------------------------------------------
(* main: parseTables(dataA), parseTables(dataB), compareTables,            *)
(* groupByType.  The loop of parseTables takes one step for each line.     *)

Parsing == pc \in {"parseA", "parseB"}

\* The text parseTables is reading.
Data == IF pc = "parseA" THEN dataA ELSE dataB

\* The tokens of the line the loop is at.
CurInfos == Infos(Data[i])

AtLine(kind) ==
    /\ Parsing
    /\ i <= Len(Data)
    /\ LineKind(analyzingTable, CurInfos) = kind

\* if len(infos) > 1 && infos[1] == "ENGINE=InnoDB" { continue }
Trailer ==
    /\ AtLine("trailer")
    /\ i' = i + 1
    /\ UNCHANGED <<dataA, dataB, pc, table, tables, analyzingTable,
                   tablesA, tablesB, ds, diffs>>

\* if infos[0] == "CREATE" && infos[1] == "TABLE" { ... continue }
Header ==
    /\ AtLine("header")
    /\ tables' = HeaderCommit(tables, table, analyzingTable)
    /\ analyzingTable' = TRUE
    /\ table' = NewTable(CurInfos)
    /\ i' = i + 1
    /\ UNCHANGED <<dataA, dataB, pc, tablesA, tablesB, ds, diffs>>

\* if analyzingTable && !isKeyword(infos[0]) { ... continue }
ColumnDef ==
    /\ AtLine("column")
    /\ table' = BodyLine(table, CurInfos)
    /\ i' = i + 1
    /\ UNCHANGED <<dataA, dataB, pc, tables, analyzingTable,
                   tablesA, tablesB, ds, diffs>>

\* if analyzingTable && infos[0] == "KEY" { ... }
IndexDef ==
    /\ AtLine("index")
    /\ table' = BodyLine(table, CurInfos)
    /\ i' = i + 1
    /\ UNCHANGED <<dataA, dataB, pc, tables, analyzingTable,
                   tablesA, tablesB, ds, diffs>>

\* if analyzingTable && infos[0] == "CONSTRAINT" { ... }
ConstraintDef ==
    /\ AtLine("constraint")
    /\ table' = BodyLine(table, CurInfos)
    /\ i' = i + 1
    /\ UNCHANGED <<dataA, dataB, pc, tables, analyzingTable,
                   tablesA, tablesB, ds, diffs>>

\* if analyzingTable && (infos[0] == "PRIMARY" || infos[0] == "UNIQUE") { ... }
KeyDef ==
    /\ AtLine("key")
    /\ table' = BodyLine(table, CurInfos)
    /\ i' = i + 1
    /\ UNCHANGED <<dataA, dataB, pc, tables, analyzingTable,
                   tablesA, tablesB, ds, diffs>>

\* No branch takes the line.
Skip ==
    /\ AtLine("skip")
    /\ i' = i + 1
    /\ UNCHANGED <<dataA, dataB, pc, table, tables, analyzingTable,
                   tablesA, tablesB, ds, diffs>>

\* An index or a slice of infos is out of range: the runtime panics and the
\* process ends.
Panic ==
    /\ AtLine("panic")
    /\ pc' = "panic"
    /\ UNCHANGED <<dataA, dataB, i, table, tables, analyzingTable,
                   tablesA, tablesB, ds, diffs>>

\* tables[table.Name] = table; return tables, and main goes on.
ParseReturn ==
    /\ Parsing
    /\ i > Len(Data)
    /\ IF pc = "parseA"
       THEN /\ tablesA' = FinalCommit(tables, table, analyzingTable)
            /\ pc' = "parseB"
            /\ UNCHANGED tablesB
       ELSE /\ tablesB' = FinalCommit(tables, table, analyzingTable)
            /\ pc' = "compare"
            /\ UNCHANGED tablesA
    /\ i' = 1
    /\ table' = ZeroTable
    /\ tables' = EmptyMap
    /\ analyzingTable' = FALSE
    /\ UNCHANGED <<dataA, dataB, ds, diffs>>

\* diffs := compareTables(tablesA, tablesB)
CompareTables ==
    /\ pc = "compare"
    /\ \E run \in compareTables(tablesA, tablesB) : diffs' = run
    /\ pc' = "group"
    /\ UNCHANGED <<dataA, dataB, i, table, tables, analyzingTable,
                   tablesA, tablesB, ds>>

\* diffs = groupByType(diffs)
GroupByType ==
    /\ pc = "group"
    /\ ds' = diffs
    /\ diffs' = groupByType(diffs)
    /\ pc' = "print"
    /\ UNCHANGED <<dataA, dataB, i, table, tables, analyzingTable,
                   tablesA, tablesB>>

\* main on two files: the first any text, the second the same file or RefText.
Init ==
    /\ dataA \in Texts
    /\ dataB \in {dataA, RefText}
    /\ pc = "parseA"
    /\ i = 1
    /\ table = ZeroTable
    /\ tables = EmptyMap
    /\ analyzingTable = FALSE
    /\ tablesA = EmptyMap
    /\ tablesB = EmptyMap
    /\ ds = <<>>
    /\ diffs = <<>>

Next ==
    \/ Trailer
    \/ Header
    \/ ColumnDef
    \/ IndexDef
    \/ ConstraintDef
    \/ KeyDef
    \/ Skip
    \/ Panic
    \/ ParseReturn
    \/ CompareTables
    \/ GroupByType

Spec == Init /\ [][Next]_vars

-----------------------------------------------------------------------------
(* What the claims about parseTables speak of.                             *)

\* parseTables(dataA) has just returned to main.
ParsedA == pc = "parseB" /\ i = 1

\* parseTables(dataB) has just returned to main.
ParsedB == pc = "compare"

\* The line is a CREATE TABLE header with a name token.
IsHeader(line) == LineKind(FALSE, Infos(line)) = "header"

\* The line is a table-options trailer.
IsTrailer(line) == LineKind(FALSE, Infos(line)) = "trailer"

\* The places of the headers of a text.
HeaderIdx(data) == { k \in 1..Len(data) : IsHeader(data[k]) }

\* The table names the headers of a text give.
HeaderNames(data) == { HeaderName(Infos(data[k])) : k \in HeaderIdx(data) }

\* The place of the last header that names n.
LastHeader(data, n) ==
    CHOOSE k \in HeaderIdx(data) :
        /\ HeaderName(Infos(data[k])) = n
        /\ \A j \in HeaderIdx(data) : HeaderName(Infos(data[j])) = n => j <= k

\* The place of the first header after line k, or one past the end.
NextHeader(data, k) ==
    CHOOSE j \in (k + 1)..(Len(data) + 1) :
        /\ j \in HeaderIdx(data) \/ j = Len(data) + 1
        /\ \A h \in (k + 1)..(j - 1) : h \notin HeaderIdx(data)

\* The table the lines from..to add their elements to, one after the other.
RECURSIVE Accumulate(_, _, _, _)
Accumulate(tbl, data, from, to) ==
    IF from > to THEN tbl
    ELSE Accumulate(BodyLine(tbl, Infos(data[from])), data, from + 1, to)

\* The table made of the header at line k and the lines up to the next header.
Segment(data, k) ==
    Accumulate(Table(HeaderName(Infos(data[k])), EmptyMap, EmptyMap, EmptyMap),
               data, k + 1, NextHeader(data, k) - 1)

\* Line k lies outside every table body: no header precedes it, or a trailer
\* does with no header since.
OutsideBody(data, k) ==
    \/ \A j \in 1..(k - 1) : ~IsHeader(data[j])
    \/ \E j \in 1..(k - 1) :
          /\ IsTrailer(data[j])
          /\ \A h \in (j + 1)..(k - 1) : ~IsHeader(data[h])

\* Outside a body the line matches none of the rules: it is no header, no
\* trailer and opens with none of KEY, CONSTRAINT, PRIMARY, UNIQUE.
MatchesNoRule(line) ==
    /\ ~IsHeader(line)
    /\ ~IsTrailer(line)
    /\ Infos(line)[1] \notin {KEY, CONSTRAINTKW, PRIMARY, UNIQUE}

\* C9 for one text and the schema returned for it.
LastWriteWins(data, schema) ==
    /\ HeaderIdx(data) # {} => DOMAIN schema = HeaderNames(data)
    /\ \A n \in HeaderNames(data) :
          /\ n \in DOMAIN schema
          /\ schema[n].Name = n
          /\ schema[n] = Segment(data, LastHeader(data, n))

\* C8 for one text and the schema returned for it.
TerminalCommit(data, schema) ==
    /\ HeaderIdx(data) = {} =>
          /\ DOMAIN schema = {<<>>}
          /\ schema[<<>>].Name = <<>>
          /\ DOMAIN schema[<<>>].Columns = {}
          /\ DOMAIN schema[<<>>].Indexes = {}
          /\ DOMAIN schema[<<>>].Constraints = {}
    /\ (HeaderIdx(data) # {} /\ <<>> \in DOMAIN schema) => <<>> \in HeaderNames(data)

\* C10 for one schema.
ColumnNamesClean(schema) ==
    \A t \in DOMAIN schema : \A c \in DOMAIN schema[t].Columns :
        LET name == schema[t].Columns[c].Name IN
        /\ name # <<>>
        /\ Head(name) # BQ
        /\ name[Len(name)] # BQ
        /\ c = name

-----------------------------------------------------------------------------
(* The claims about parseTables.                                           *)

\* C1: reflexivity.  When the two parsed schemas are the same schema,
\* compareTables returns the empty list, and groupByType of it is empty too.
C1_Reflexive ==
    (pc \in {"group", "print"} /\ tablesA = tablesB) => diffs = <<>>

\* C1's case: a schema with a table that has columns and constraints has been
\* compared with itself and grouped.
C1_Witness ==
    /\ pc = "print"
    /\ tablesA = tablesB
    /\ \E t \in DOMAIN tablesA :
          /\ DOMAIN tablesA[t].Columns # {}
          /\ DOMAIN tablesA[t].Constraints # {}

\* C4: totality.  parseTables raises no index-out-of-range or slice-bounds
\* error, whatever the lines of the text.
C4_ParserTotal == pc # "panic"

\* C7: a line outside every table body that matches no rule changes neither
\* the current table nor the schema.
C7_OutsideIgnored ==
    [][ ( /\ Parsing
          /\ i <= Len(Data)
          /\ OutsideBody(Data, i)
          /\ MatchesNoRule(Data[i]) )
        => (table' = table /\ tables' = tables) ]_vars

\* C8: the terminal commit is unconditional.  A text without a header gives
\* the one entry keyed by the empty name, with no columns, indexes or
\* constraints; a text with a header gives no empty-named entry unless a
\* header names one.
C8_TerminalCommit ==
    /\ ParsedA => TerminalCommit(dataA, tablesA)
    /\ ParsedB => TerminalCommit(dataB, tablesB)

\* C8's case: a text with lines but no header has been parsed.
C8_Witness ==
    /\ ParsedA
    /\ HeaderIdx(dataA) = {}
    /\ \E k \in 1..Len(dataA) : dataA[k] = LColA
    /\ DOMAIN tablesA = {<<>>}

\* C9: commit on header, last write wins.  The schema has one entry for each
\* name a header gives, keyed by the name, holding exactly the elements of
\* the lines between the last header of that name and the next header.
C9_LastWriteWins ==
    /\ ParsedA => LastWriteWins(dataA, tablesA)
    /\ ParsedB => LastWriteWins(dataB, tablesB)

\* C9's case: a name is given by two headers, the earlier table had a column,
\* and the schema returned holds the later, empty one.
C9_Witness ==
    /\ ParsedA
    /\ Len(dataA) = 3
    /\ IsHeader(dataA[1]) /\ dataA[2] = LColA /\ dataA[3] = dataA[1]
    /\ DOMAIN tablesA[HeaderName(Infos(dataA[1]))].Columns = {}

\* C10: every column of a returned schema has a non-empty name with no
\* backquote at either end, and is stored under that name.
C10_ColumnNames ==
    /\ ParsedA => ColumnNamesClean(tablesA)
    /\ ParsedB => ColumnNamesClean(tablesB)

-----------------------------------------------------------------------------
(* The diff engine on its own: compareTables and groupByType on every pair *)
(* of schemas, of the form parseTables builds, that hold at most MaxElems  *)
(* columns, indexes and constraints between them.  The texts are left out: *)
(* nothing reads them once they are parsed.                                *)

TableNames == { <<"t">>, <<"u">> }
ColNames == { <<"a">>, <<"b">> }
ConstraintCols == { <<"a">> }
IndexCols == { <<"a">> }
Types == { <<"INT">>, <<"TEXT">> }
\* The (type, other) pairs of a column: alike, or apart in type, in other, in both.
ColumnValues ==
    { <<(<<"INT">>), (<<>>)>>, <<(<<"TEXT">>), (<<>>)>>,
      <<(<<"INT">>), (<<"NOT", SP, "NULL">>)>> }
Kinds == { PRIMARY, <<"FOREIGN">> }
ConstraintOthers == { <<>>, <<"REFERENCES", SP, "o">> }
IndexNames == { <<"i">> }
ConstraintNames == { <<"f">> }

\* One column, index or constraint of one table of one of the two schemas.
Elem(side, tbl, slot, col, kind, v1, v2) ==
    [side |-> side, tbl |-> tbl, slot |-> slot, col |-> col, kind |-> kind,
     v1 |-> v1, v2 |-> v2]

Elems ==
    { Elem(sd, t, "col", c, <<>>, v[1], v[2]) :
        sd \in {"A", "B"}, t \in TableNames, c \in ColNames, v \in ColumnValues }
    \cup
    { Elem(sd, t, "idx", c, <<>>, n, <<>>) :
        sd \in {"A", "B"}, t \in TableNames, c \in IndexCols, n \in IndexNames }
    \cup
    { Elem(sd, t, "con", c, k, n, o) :
        sd \in {"A", "B"}, t \in TableNames, c \in ConstraintCols, k \in Kinds,
        n \in ConstraintNames, o \in ConstraintOthers }

SameSlot(e, f) ==
    /\ e.side = f.side /\ e.tbl = f.tbl /\ e.slot = f.slot
    /\ e.col = f.col /\ e.kind = f.kind

\* The sets of at most k elements of S.
RECURSIVE KSubsets(_, _)
KSubsets(S, k) ==
    IF k = 0 THEN {{}}
    ELSE LET P == KSubsets(S, k - 1) IN P \cup { s \cup {x} : s \in P, x \in S }

\* The element sets that put at most one element in a slot.
ElemSets ==
    { E \in KSubsets(Elems, MaxElems) :
        \A e, f \in E : SameSlot(e, f) => e = f }

\* The table tbl of one side, from the elements E.
TableFrom(E, side, tbl) ==
    LET mine == { e \in E : e.side = side /\ e.tbl = tbl }
        the(slot, c, k) ==
            CHOOSE e \in mine : e.slot = slot /\ e.col = c /\ e.kind = k
        cols == { e.col : e \in { x \in mine : x.slot = "col" } }
        idxs == { e.col : e \in { x \in mine : x.slot = "idx" } }
        cons == { e.col : e \in { x \in mine : x.slot = "con" } }
        kindsOf(c) == { e.kind : e \in { x \in mine : x.slot = "con" /\ x.col = c } }
    IN  Table(tbl,
              [c \in cols |-> Column(c, the("col", c, <<>>).v1, the("col", c, <<>>).v2)],
              [c \in idxs |-> Index(the("idx", c, <<>>).v1, c)],
              [c \in cons |-> [k \in kindsOf(c) |->
                  Constraint(the("con", c, k).v1, c, k, the("con", c, k).v2)]])

\* The schema of one side: the tables of T, filled from the elements E.
SchemaFrom(E, side, T) == [t \in T |-> TableFrom(E, side, t)]

\* The table sets a side may have: not empty, and holding its elements' tables.
TableSets(E, side) ==
    { T \in SUBSET TableNames :
        /\ T # {}
        /\ \A e \in E : e.side = side => e.tbl \in T }

InitDiff ==
    /\ \E E \in ElemSets :
          /\ \E T \in TableSets(E, "A") : tablesA = SchemaFrom(E, "A", T)
          /\ \E T \in TableSets(E, "B") : tablesB = SchemaFrom(E, "B", T)
    /\ pc = "compare"
    /\ dataA = <<>>
    /\ dataB = <<>>
    /\ i = 1
    /\ table = ZeroTable
    /\ tables = EmptyMap
    /\ analyzingTable = FALSE
    /\ ds = <<>>
    /\ diffs = <<>>

NextDiff ==
    \/ CompareTables
    \/ GroupByType

SpecDiff == InitDiff /\ [][NextDiff]_vars

-----------------------------------------------------------------------------
(* What the claims about compareTables and groupByType speak of.           *)

\* compareTables has returned.
Compared == pc \in {"group", "print"}

\* The list compareTables returned.
Returned == IF pc = "group" THEN diffs ELSE ds

Range(list) == { list[n] : n \in 1..Len(list) }

\* How many diffs of a list have the type, the target and the A value.
CountOf(list, type, target) ==
    Cardinality({ n \in 1..Len(list) :
                    list[n].Type = type /\ list[n].Target = target })

CountOfA(list, type, target, a) ==
    Cardinality({ n \in 1..Len(list) :
                    /\ list[n].Type = type
                    /\ list[n].Target = target
                    /\ list[n].A = a })

\* The diff is about table t: its target is t or starts with t and a dot.
ForTable(d, t) ==
    \/ d.Target = t
    \/ /\ Len(d.Target) > Len(t)
       /\ SubSeq(d.Target, 1, Len(t) + 1) = t \o <<DOT>>

\* The diff names a table of A and, by its type, an element of that table.
FromA(d, A, B) ==
    \E t \in DOMAIN A :
        \/ /\ d.Type = MissingTable
           /\ d.Target = t
           /\ t \notin DOMAIN B
        \/ /\ d.Type = MissingColumn
           /\ d.Target = t
           /\ d.A \in DOMAIN A[t].Columns
        \/ /\ d.Type \in {WrongColumnType, WrongColumnOther}
           /\ \E c \in DOMAIN A[t].Columns : d.Target = Sprintf2(t, c)
        \/ /\ d.Type = MissingIndex
           /\ \E c \in DOMAIN A[t].Indexes : d.Target = Sprintf2(t, c)
        \/ /\ d.Type = MissingConstraint
           /\ \E c \in DOMAIN A[t].Constraints :
                 /\ d.Target = Sprintf2(t, c)
                 /\ d.A \in DOMAIN A[t].Constraints[c]
        \/ /\ d.Type = WrongConstraintOther
           /\ \E c \in DOMAIN A[t].Constraints :
                 \E k \in DOMAIN A[t].Constraints[c] : d.Target = Sprintf3(t, c, k)

\* B with one more table, which A does not have.
WithNewTable(A, B) ==
    UNION { { Put(B, n, Table(n, cols, EmptyMap, EmptyMap)) :
                cols \in { EmptyMap,
                           Put(EmptyMap, <<"a">>, Column(<<"a">>, <<"INT">>, <<>>)) } } :
            n \in TableNames \ (DOMAIN A \cup DOMAIN B) }

\* The keys of a map of the table t of A; none when A has no such table.
KeysInA(A, t, field) ==
    IF t \notin DOMAIN A THEN {}
    ELSE IF field = "Columns" THEN DOMAIN A[t].Columns
    ELSE IF field = "Indexes" THEN DOMAIN A[t].Indexes
    ELSE UNION { { <<c, k>> : k \in DOMAIN A[t].Constraints[c] } :
                   c \in DOMAIN A[t].Constraints }

\* B with one more column in one table, under a key the table of A lacks.
WithNewColumn(A, B) ==
    UNION { { Put(B, t, [B[t] EXCEPT !.Columns = Put(@, c, Column(c, ty, <<>>))]) :
                c \in ColNames \ (DOMAIN B[t].Columns \cup KeysInA(A, t, "Columns")),
                ty \in Types } :
            t \in DOMAIN B }

\* B with one more index in one table, under a key the table of A lacks.
WithNewIndex(A, B) ==
    UNION { { Put(B, t, [B[t] EXCEPT !.Indexes = Put(@, c, Index(n, c))]) :
                c \in ColNames \ (DOMAIN B[t].Indexes \cup KeysInA(A, t, "Indexes")),
                n \in IndexNames } :
            t \in DOMAIN B }

\* B with one more constraint in one table, under a (column, kind) the table
\* of A lacks.
WithNewConstraint(A, B) ==
    UNION { { Put(B, t, WithConstraint(B[t], Constraint(n, ck[1], ck[2], o))) :
                ck \in { x \in ColNames \X Kinds :
                           /\ ~ConstraintExists(B[t], x[1], x[2])
                           /\ x \notin KeysInA(A, t, "Constraints") },
                n \in ConstraintNames, o \in ConstraintOthers } :
            t \in DOMAIN B }

\* Every B with one element more that is present only in B.
Additions(A, B) ==
    WithNewTable(A, B) \cup WithNewColumn(A, B)
    \cup WithNewIndex(A, B) \cup WithNewConstraint(A, B)

\* The types in the order groupByType is to put them.
KindOrder ==
    << MissingTable, MissingColumn, WrongColumnType, WrongColumnOther,
       MissingConstraint, WrongConstraintOther, MissingIndex >>

Rank(type) == CHOOSE n \in 1..Len(KindOrder) : KindOrder[n] = type

OfKind(list, type) == SelectSeq(list, LAMBDA d : d.Type = type)

-----------------------------------------------------------------------------
(* The claims about compareTables and groupByType.                         *)

\* C2: directional asymmetry.  Adding to B a table A lacks, or to a table of
\* B a column, index or constraint under a key the same table of A lacks,
\* leaves the set of diffs compareTables returns unchanged; and every diff is
\* about an element of A.
C2_Directional ==
    pc = "group" =>
      /\ \A B2 \in Additions(tablesA, tablesB) :
            \A run \in compareTables(tablesA, B2) : Range(run) = Range(diffs)
      /\ \A d \in Range(diffs) : FromA(d, tablesA, tablesB)

\* C2's case: A has a constraint B lacks, a constraint of another kind on the
\* same column can be added to B, and the comparison has reported.
C2_Witness ==
    /\ pc = "group"
    /\ diffs # <<>>
    /\ \E t \in DOMAIN tablesA \cap DOMAIN tablesB :
          /\ \E c \in DOMAIN tablesA[t].Constraints :
                /\ c \notin DOMAIN tablesB[t].Constraints
                /\ \E k \in Kinds : k \notin DOMAIN tablesA[t].Constraints[c]
    /\ WithNewTable(tablesA, tablesB) # {}
    /\ WithNewColumn(tablesA, tablesB) # {}
    /\ WithNewIndex(tablesA, tablesB) # {}
    /\ WithNewConstraint(tablesA, tablesB) # {}

\* C3: grouping.  groupByType returns a permutation of its list, with the
\* types in the fixed order, each type contiguous, and the diffs of one type
\* in the order they had.
C3_Grouping ==
    pc = "print" =>
      /\ Len(diffs) = Len(ds)
      /\ \A d \in Range(ds) \cup Range(diffs) :
            Cardinality({ n \in 1..Len(ds) : ds[n] = d })
              = Cardinality({ n \in 1..Len(diffs) : diffs[n] = d })
      /\ \A m, n \in 1..Len(diffs) :
            m < n => Rank(diffs[m].Type) <= Rank(diffs[n].Type)
      /\ \A k \in 1..Len(KindOrder) :
            OfKind(diffs, KindOrder[k]) = OfKind(ds, KindOrder[k])

\* C3's case: groupByType was given a list out of order, holding an index
\* diff and a constraint diff, and has reordered it.
C3_Witness ==
    /\ pc = "print"
    /\ diffs # ds
    /\ \E d \in Range(ds) : d.Type = MissingIndex
    /\ \E d \in Range(ds) : d.Type = MissingTable

\* C5: for a column of a table that A and B both have, one WRONG_COLUMN_TYPE
\* diff exactly when the types differ, one WRONG_COLUMN_OTHER diff exactly
\* when the others differ, each targeting table.column, and no
\* MISSING_COLUMN; for a column B lacks, one MISSING_COLUMN and neither of
\* the other two.
C5_TypeOtherIndependent ==
    Compared =>
      \A t \in DOMAIN tablesA \cap DOMAIN tablesB :
        \A c \in DOMAIN tablesA[t].Columns :
          LET nType == CountOf(Returned, WrongColumnType, Sprintf2(t, c))
              nOther == CountOf(Returned, WrongColumnOther, Sprintf2(t, c))
              nMissing == CountOfA(Returned, MissingColumn, t, c)
          IN  IF c \in DOMAIN tablesB[t].Columns
              THEN /\ nType = IF tablesA[t].Columns[c].Type
                                  # tablesB[t].Columns[c].Type THEN 1 ELSE 0
                   /\ nOther = IF tablesA[t].Columns[c].Other
                                   # tablesB[t].Columns[c].Other THEN 1 ELSE 0
                   /\ nMissing = 0
              ELSE /\ nMissing = 1
                   /\ nType = 0
                   /\ nOther = 0

\* C5's case: a column differs in type and in other, and the two diffs for it
\* have been returned.
C5_Witness ==
    /\ Compared
    /\ \E t \in DOMAIN tablesA \cap DOMAIN tablesB :
         \E c \in DOMAIN tablesA[t].Columns \cap DOMAIN tablesB[t].Columns :
            /\ tablesA[t].Columns[c].Type # tablesB[t].Columns[c].Type
            /\ tablesA[t].Columns[c].Other # tablesB[t].Columns[c].Other
            /\ CountOf(Returned, WrongColumnType, Sprintf2(t, c)) = 1
            /\ CountOf(Returned, WrongColumnOther, Sprintf2(t, c)) = 1

\* C6: no fabricated targets.  Every diff names a table of A and, by its
\* type, a key of the Columns, Indexes or Constraints of that table; a table
\* of A that B lacks gets the one MISSING_TABLE diff and no other diff.
C6_NoFabricatedTargets ==
    Compared =>
      /\ \A d \in Range(Returned) : FromA(d, tablesA, tablesB)
      /\ \A t \in DOMAIN tablesA \ DOMAIN tablesB :
            /\ Cardinality({ n \in 1..Len(Returned) : ForTable(Returned[n], t) }) = 1
            /\ CountOfA(Returned, MissingTable, t, t) = 1

\* C6's case: a table of A with columns and an index is absent from B, and
\* the comparison has reported.
C6_Witness ==
    /\ Compared
    /\ \E t \in DOMAIN tablesA \ DOMAIN tablesB :
          /\ DOMAIN tablesA[t].Columns # {}
          /\ DOMAIN tablesA[t].Indexes # {}
          /\ CountOfA(Returned, MissingTable, t, t) = 1

=============================================================================
